---- MODULE Spec2Model ----
(***************************************************************************)
(* State-machine model of quemb.molbe._opt.BEOPT: the objective function   *)
(* objfunc (serial and parallel dispatch of the fragment evaluation) and   *)
(* the quasi-Newton reporting loop optimize.                               *)
(*                                                                         *)
(* Real quantities are modelled on an integer grid.  Scalar errors are in  *)
(* units of the default tolerance (1 unit = 1.0e-6), so that the values    *)
(* 0, conv_tol and conv_tol + 1 stand for an error below, equal to and     *)
(* above the tolerance.  A potential vector is one value of Pots.          *)
(***************************************************************************)
EXTENDS Integers, Sequences, FiniteSets, TLC

\* ------------------------------------------------------------------ bounds
\* potentials are 0..MaxPot
MaxPot == 1
\* max_space is drawn from 0..MaxSpace
MaxSpace == 2
\* number of calls of optimize on one BEOPT object
MaxRuns == 2
\* number of fragments in Fobjs
NFrag == 2
\* nproc is drawn from 1..MaxProc
MaxProc == 2
\* directory names under the scratch root are 1..MaxLoc (QuEmb_1, ...)
MaxLoc == 2
\* number of WorkDir objects created
NWorkDir == 2

\* conv_tol=1.0e-6 (the default), in units of 1.0e-6
conv_tol == 1

Pots == 0..MaxPot
Errs == 0..(conv_tol + 1)
Frags == 1..NFrag
Methods == {"QN", "UNSUPPORTED"}

VARIABLES
  \* ---- fields of the BEOPT object
  pot,          \* self.pot
  iter,         \* self.iter
  err,          \* self.err
  Ebe,          \* self.Ebe
  max_space,    \* self.max_space
  nproc,        \* self.nproc
  hci_pt,       \* self.hci_pt
  \* ---- the external fragment-evaluation routine
  table,        \* its scalar error, as a function of the potential handed over
  pool,         \* the worker pool of be_func_parallel during one call
  be_iter,      \* the be_iter keyword of the latest call of the routine
  handed,       \* which routine the latest call went to, and the hci_pt it got
  \* ---- the frame of optimize
  pc,           \* position in optimize
  arg,          \* xk, the argument of the pending / latest objfunc call
  optQN,        \* the FrankQN object
  steps,        \* iterations of the for loop completed (iter_ + 1)
  banner,       \* final banners printed by this call of optimize
  exit_status,  \* <<status>> once sys.exit() has ended the process, else <<>>
  \* ---- history
  run,          \* calls of optimize so far
  iter0,        \* self.iter when this call of optimize started
  evals,        \* calls of the external routine during this call of optimize
  nsCalls,      \* calls of optQN.next_step during this call of optimize
  returned,     \* calls of optQN.next_step that have returned, over all runs
  lastXk,       \* argument of the latest objfunc call that returned
  firstBelow,   \* number (1 = initial, k + 1 = step k) of the first evaluation
                \* of this call of optimize whose error was below conv_tol, or 0
  first,        \* the first evaluation ever made on the object
  failed,       \* the external routine has raised
  \* ---- the scratch directory provider
  fs,           \* the directories under the scratch root
  wd,           \* the WorkDir objects
  lastOp        \* the latest operation on the scratch area and what it raised

beoptVars == <<pot, iter, err, Ebe, max_space, nproc, hci_pt, table, pool,
               be_iter, handed, pc, arg, optQN, steps, banner, exit_status,
               run, iter0, evals, nsCalls, returned, lastXk, firstBelow, first,
               failed>>
scratchVars == <<fs, wd, lastOp>>
vars == <<beoptVars, scratchVars>>

\* ------------------------------------------------- the external routines

\* energy contribution of fragment f at potential xk; with hci_pt the
\* perturbative correction is added to it
FragE(f, xk, h) == 0 - (xk + f) - (IF h THEN 1 ELSE 0)

RECURSIVE SumFragE(_, _, _)
SumFragE(S, xk, h) ==
  IF S = {} THEN 0
  ELSE LET f == CHOOSE g \in S : TRUE
       IN FragE(f, xk, h) + SumFragE(S \ {f}, xk, h)

\* be_func(xk, ..., hci_pt=.., be_iter=..): (err, ebe) of the serial routine;
\* be_iter only names log lines and scratch paths
be_func(xk, h, it) == [err |-> table[xk], ebe |-> SumFragE(Frags, xk, h)]

\* hci_pt of be_func_parallel when the caller passes none
ParallelDefaultHciPt == FALSE

IdlePool ==
  [frag |-> [f \in Frags |-> "none"], acc |-> 0, xk |-> 0, hci_pt |-> FALSE]
PoolActive == \E f \in Frags : pool.frag[f] # "none"
Running == {f \in Frags : pool.frag[f] = "running"}
AllDone == \A f \in Frags : pool.frag[f] = "done"
\* result.get() is called in submission order: a failure is seen once every
\* earlier fragment has delivered
FailureSeen ==
  \E f \in Frags : /\ pool.frag[f] = "failed"
                   /\ \A g \in Frags : g < f => pool.frag[g] = "done"

\* FrankQN(func, x0, f0, J0, max_space): construction evaluates nothing
FrankQN(x0) == [built |-> TRUE, xnew |-> x0]
\* candidates for the potential next_step moves to
NextPotentials(qn) == Pots

\* --------------------------------------------------------------- BEOPT

\* if self.nproc == 1
UsesSerial(n) == n = 1

\* the comparison the wrong way round
ConvergedInitially_Reversed(e, tol) == e > tol

\* if self.err < self.conv_tol  (before the loop)
ConvergedInitially(e, tol) == e < tol

\* an error equal to the tolerance taken as converged
ConvergedAfterStep_OrEqual(e, tol) == e <= tol

\* if self.err < self.conv_tol  (after a step)
ConvergedAfterStep(e, tol) == e < tol

\* one iteration too many
LoopContinues_OffByOne(k, ms) == k <= ms

\* for iter_ in range(self.max_space): another iteration after k of them
LoopContinues(k, ms) == k < ms

\* the increment forgotten
IterAfterStep_Forgotten(i) == i

\* self.iter += 1
IterAfterStep(i) == i + 1

\* sys.exit() with no argument: SystemExit(None), process status 0
SysExitStatus == 0

NoCall == [routine |-> "none", hci_pt |-> FALSE]

\* objfunc, nproc == 1: hci_pt=self.hci_pt is among the keywords of be_func
SerialHciPt == hci_pt

\* objfunc, nproc != 1: no hci_pt among the keywords of be_func_parallel
ParallelHciPt == ParallelDefaultHciPt

\* the index of the step about to be made, counted from one
BeIterArg_FromOne(i) == i + 1

\* be_iter=self.iter
BeIterArg(i) == i

NoFirst == [set |-> FALSE, xk |-> 0, err |-> 0, ebe |-> 0, iter |-> 0]

\* ------------------------------------------------- the scratch provider

Locs == 1..MaxLoc
WorkDirs == 1..NWorkDir

NoDirs == [l \in Locs |-> "absent"]
NoWD == [st |-> "none", path |-> 0, pid |-> 0]
NoWorkDirs == [h \in WorkDirs |-> NoWD]
Op(o, h, l, before, e) ==
  [op |-> o, h |-> h, loc |-> l, before |-> before, err |-> e]
NoOp == Op("none", 0, 0, "absent", "")

\* objects are numbered in the order of their creation
Fresh(h) ==
  /\ wd[h].st = "none"
  /\ \A g \in WorkDirs : g < h => wd[g].st # "none"

\* the BEOPT object as __init__ leaves it
BeoptInit ==
  /\ pot \in Pots
  /\ iter = 0
  /\ err = 0
  /\ Ebe = 0
  /\ max_space \in 0..MaxSpace
  /\ nproc \in 1..MaxProc
  /\ hci_pt \in BOOLEAN
  /\ table \in [Pots -> Errs]
  /\ pool = IdlePool
  /\ be_iter = 0
  /\ handed = NoCall
  /\ pc = "idle"
  /\ arg = pot
  /\ optQN = [built |-> FALSE, xnew |-> pot]
  /\ steps = 0
  /\ banner = <<>>
  /\ exit_status = <<>>
  /\ run = 0
  /\ iter0 = 0
  /\ evals = 0
  /\ nsCalls = 0
  /\ returned = 0
  /\ lastXk = pot
  /\ firstBelow = 0
  /\ first = NoFirst
  /\ failed = FALSE

Init ==
  /\ BeoptInit
  /\ fs = NoDirs
  /\ wd = NoWorkDirs
  /\ lastOp = NoOp

\* the counter set back to zero at the start of every call
OptimizeQN_ResetsIter ==
  /\ pc \in {"idle", "done"}
  /\ run < MaxRuns
  /\ run' = run + 1
  /\ pc' = "init_call"
  /\ arg' = pot
  /\ optQN' = [built |-> FALSE, xnew |-> pot]
  /\ steps' = 0
  /\ banner' = <<>>
  /\ iter' = 0
  /\ iter0' = 0
  /\ evals' = 0
  /\ nsCalls' = 0
  /\ firstBelow' = 0
  /\ UNCHANGED <<pot, err, Ebe, max_space, nproc, table, pool, be_iter,
                 exit_status, returned, lastXk, first, failed>>
  /\ UNCHANGED <<hci_pt, handed, scratchVars>>

\* optimize(method="QN") up to the call self.objfunc(self.pot)
OptimizeQN ==
  /\ pc \in {"idle", "done"}
  /\ run < MaxRuns
  /\ run' = run + 1
  /\ pc' = "init_call"
  /\ arg' = pot
  /\ optQN' = [built |-> FALSE, xnew |-> pot]
  /\ steps' = 0
  /\ banner' = <<>>
  /\ iter0' = iter
  /\ evals' = 0
  /\ nsCalls' = 0
  /\ firstBelow' = 0
  /\ UNCHANGED <<pot, iter, err, Ebe, max_space, nproc, table, pool, be_iter,
                 exit_status, returned, lastXk, first, failed>>
  /\ UNCHANGED <<hci_pt, handed, scratchVars>>

\* the driver built before the method is looked at
OptimizeUnsupported_BuildsDriver ==
  /\ pc \in {"idle", "done"}
  /\ run < MaxRuns
  /\ run' = run + 1
  /\ pc' = "exited"
  /\ exit_status' = <<SysExitStatus>>
  /\ steps' = 0
  /\ banner' = <<>>
  /\ iter0' = iter
  /\ evals' = 0
  /\ nsCalls' = 0
  /\ firstBelow' = 0
  /\ optQN' = FrankQN(pot)
  /\ UNCHANGED <<pot, iter, err, Ebe, max_space, nproc, table, pool, be_iter,
                 arg, returned, lastXk, first, failed>>
  /\ UNCHANGED <<hci_pt, handed, scratchVars>>

\* optimize(method) for any other method: print and sys.exit()
OptimizeUnsupported ==
  /\ pc \in {"idle", "done"}
  /\ run < MaxRuns
  /\ run' = run + 1
  /\ pc' = "exited"
  /\ exit_status' = <<SysExitStatus>>
  /\ steps' = 0
  /\ banner' = <<>>
  /\ iter0' = iter
  /\ evals' = 0
  /\ nsCalls' = 0
  /\ firstBelow' = 0
  /\ optQN' = [built |-> FALSE, xnew |-> pot]
  /\ UNCHANGED <<pot, iter, err, Ebe, max_space, nproc, table, pool, be_iter,
                 arg, returned, lastXk, first, failed>>
  /\ UNCHANGED <<hci_pt, handed, scratchVars>>

Optimize(method) ==
  IF method = "QN" THEN OptimizeQN ELSE OptimizeUnsupported

Calling == pc \in {"init_call", "step_call"}
Waiting == pc \in {"init_wait", "step_wait"}
RetOf(p) == IF p \in {"init_call", "init_wait"} THEN "init_ret" ELSE "step_ret"
WaitOf(p) == IF p = "init_call" THEN "init_wait" ELSE "step_wait"

\* history of an evaluation of xk, the n-th of this call of optimize, that
\* returned error e and energy b
Record(xk, e, b, n) ==
  /\ lastXk' = xk
  /\ firstBelow' = IF firstBelow = 0 /\ e < conv_tol THEN n ELSE firstBelow
  /\ first' = IF first.set THEN first
              ELSE [set |-> TRUE, xk |-> xk, err |-> e, ebe |-> b,
                    iter |-> iter]

\* the energy left as it was
StoreResult_ErrOnly(e, b) ==
  /\ err' = e
  /\ Ebe' = Ebe

\* the energy added to the one of the previous call
StoreResult_Accumulate(e, b) ==
  /\ err' = e
  /\ Ebe' = Ebe + b

\* self.err = err_ ; self.Ebe = ebe_
StoreResult(e, b) ==
  /\ err' = e
  /\ Ebe' = b

\* a potential evaluated last time is answered from the stored result
ObjfuncSerial_Cached ==
  /\ Calling
  /\ UsesSerial(nproc)
  /\ IF first.set /\ arg = lastXk
     THEN UNCHANGED <<err, Ebe, lastXk, firstBelow, first, be_iter, handed,
                      evals>>
     ELSE LET r == be_func(arg, SerialHciPt, BeIterArg(iter)) IN
            /\ StoreResult(r.err, r.ebe)
            /\ Record(arg, r.err, r.ebe, evals + 1)
            /\ be_iter' = BeIterArg(iter)
            /\ handed' = [routine |-> "be_func", hci_pt |-> SerialHciPt]
            /\ evals' = evals + 1
  /\ pc' = RetOf(pc)
  /\ UNCHANGED <<pot, iter, max_space, nproc, table, pool, arg, optQN, steps,
                 banner, exit_status, run, iter0, nsCalls, returned, failed>>
  /\ UNCHANGED <<hci_pt, scratchVars>>

\* objfunc(xk) with nproc == 1: be_func returns, err and Ebe are stored
ObjfuncSerial ==
  /\ Calling
  /\ UsesSerial(nproc)
  /\ LET r == be_func(arg, SerialHciPt, BeIterArg(iter)) IN
       /\ StoreResult(r.err, r.ebe)
       /\ Record(arg, r.err, r.ebe, evals + 1)
  /\ be_iter' = BeIterArg(iter)
  /\ handed' = [routine |-> "be_func", hci_pt |-> SerialHciPt]
  /\ evals' = evals + 1
  /\ pc' = RetOf(pc)
  /\ UNCHANGED <<pot, iter, max_space, nproc, table, pool, arg, optQN, steps,
                 banner, exit_status, run, iter0, nsCalls, returned, failed>>
  /\ UNCHANGED <<hci_pt, scratchVars>>

\* the failure swallowed: objfunc returns with err and Ebe as they were
ObjfuncSerialRaise_Swallowed ==
  /\ Calling
  /\ UsesSerial(nproc)
  /\ be_iter' = BeIterArg(iter)
  /\ handed' = [routine |-> "be_func", hci_pt |-> SerialHciPt]
  /\ evals' = evals + 1
  /\ failed' = TRUE
  /\ pc' = RetOf(pc)
  /\ UNCHANGED <<pot, iter, err, Ebe, max_space, nproc, table, pool, arg,
                 optQN, steps, banner, exit_status, run, iter0, nsCalls,
                 returned, lastXk, firstBelow, first>>
  /\ UNCHANGED <<hci_pt, scratchVars>>

\* objfunc(xk) with nproc == 1: be_func raises; nothing in objfunc, next_step
\* or optimize catches it
ObjfuncSerialRaise ==
  /\ Calling
  /\ UsesSerial(nproc)
  /\ be_iter' = BeIterArg(iter)
  /\ handed' = [routine |-> "be_func", hci_pt |-> SerialHciPt]
  /\ evals' = evals + 1
  /\ failed' = TRUE
  /\ pc' = "raised"
  /\ UNCHANGED <<pot, iter, err, Ebe, max_space, nproc, table, pool, arg,
                 optQN, steps, banner, exit_status, run, iter0, nsCalls,
                 returned, lastXk, firstBelow, first>>
  /\ UNCHANGED <<hci_pt, scratchVars>>

\* objfunc(xk) with nproc != 1: be_func_parallel is called and submits one
\* task per fragment to a pool of nproc workers
ObjfuncParallelDispatch ==
  /\ Calling
  /\ ~UsesSerial(nproc)
  /\ pool' = [frag |-> [f \in Frags |-> "queued"], acc |-> 0, xk |-> arg,
              hci_pt |-> ParallelHciPt]
  /\ be_iter' = BeIterArg(iter)
  /\ handed' = [routine |-> "be_func_parallel", hci_pt |-> ParallelHciPt]
  /\ evals' = evals + 1
  /\ pc' = WaitOf(pc)
  /\ UNCHANGED <<pot, iter, err, Ebe, max_space, nproc, table, arg, optQN,
                 steps, banner, exit_status, run, iter0, nsCalls, returned,
                 lastXk, firstBelow, first, failed>>
  /\ UNCHANGED <<hci_pt, scratchVars>>

\* a free worker takes the next queued fragment
WorkerStart(f) ==
  /\ pool.frag[f] = "queued"
  /\ \A g \in Frags : g < f => pool.frag[g] # "queued"
  /\ Cardinality(Running) < nproc
  /\ pool' = [pool EXCEPT !.frag[f] = "running"]
  /\ UNCHANGED <<pot, iter, err, Ebe, max_space, nproc, table, be_iter, pc,
                 arg, optQN, steps, banner, exit_status, run, iter0, evals,
                 nsCalls, returned, lastXk, firstBelow, first, failed>>
  /\ UNCHANGED <<hci_pt, handed, scratchVars>>

\* a worker delivers the result of its fragment
WorkerFinish(f) ==
  /\ pool.frag[f] = "running"
  /\ pool' = [pool EXCEPT !.frag[f] = "done",
                          !.acc = pool.acc + FragE(f, pool.xk, pool.hci_pt)]
  /\ UNCHANGED <<pot, iter, err, Ebe, max_space, nproc, table, be_iter, pc,
                 arg, optQN, steps, banner, exit_status, run, iter0, evals,
                 nsCalls, returned, lastXk, firstBelow, first, failed>>
  /\ UNCHANGED <<hci_pt, handed, scratchVars>>

\* the solver of a fragment raises in its worker
WorkerFail(f) ==
  /\ pool.frag[f] = "running"
  /\ pool' = [pool EXCEPT !.frag[f] = "failed"]
  /\ UNCHANGED <<pot, iter, err, Ebe, max_space, nproc, table, be_iter, pc,
                 arg, optQN, steps, banner, exit_status, run, iter0, evals,
                 nsCalls, returned, lastXk, firstBelow, first, failed>>
  /\ UNCHANGED <<hci_pt, handed, scratchVars>>

\* objfunc goes on with the first result, the other workers still running
ObjfuncParallelReturn_Early ==
  /\ Waiting
  /\ \E f \in Frags : pool.frag[f] = "done"
  /\ StoreResult(table[pool.xk], pool.acc)
  /\ Record(arg, table[pool.xk], pool.acc, evals)
  /\ pool' = pool
  /\ pc' = RetOf(pc)
  /\ UNCHANGED <<pot, iter, max_space, nproc, table, be_iter, arg, optQN,
                 steps, banner, exit_status, run, iter0, evals, nsCalls,
                 returned, failed>>
  /\ UNCHANGED <<hci_pt, handed, scratchVars>>

\* be_func_parallel returns once every fragment has delivered; err and Ebe
\* are stored
ObjfuncParallelReturn ==
  /\ Waiting
  /\ AllDone
  /\ StoreResult(table[pool.xk], pool.acc)
  /\ Record(arg, table[pool.xk], pool.acc, evals)
  /\ pool' = IdlePool
  /\ pc' = RetOf(pc)
  /\ UNCHANGED <<pot, iter, max_space, nproc, table, be_iter, arg, optQN,
                 steps, banner, exit_status, run, iter0, evals, nsCalls,
                 returned, failed>>
  /\ UNCHANGED <<hci_pt, handed, scratchVars>>

\* be_func_parallel raises the failure of a fragment; leaving the pool's
\* with block terminates the workers
ObjfuncParallelRaise ==
  /\ Waiting
  /\ FailureSeen
  /\ pool' = IdlePool
  /\ failed' = TRUE
  /\ pc' = "raised"
  /\ UNCHANGED <<pot, iter, err, Ebe, max_space, nproc, table, be_iter, arg,
                 optQN, steps, banner, exit_status, run, iter0, evals, nsCalls,
                 returned, lastXk, firstBelow, first>>
  /\ UNCHANGED <<hci_pt, handed, scratchVars>>

\* after f0 = self.objfunc(self.pot): print the error, build FrankQN, test
\* the initial error and enter the loop
InitialCheck ==
  /\ pc = "init_ret"
  /\ optQN' = FrankQN(pot)
  /\ IF ConvergedInitially(err, conv_tol)
     THEN /\ banner' = Append(banner, "CONVERGED w/o Optimization Steps")
          /\ pc' = "done"
     ELSE /\ banner' = banner
          /\ pc' = IF LoopContinues(0, max_space) THEN "loop" ELSE "done"
  /\ UNCHANGED <<pot, iter, err, Ebe, max_space, nproc, table, pool, be_iter,
                 arg, steps, exit_status, run, iter0, evals, nsCalls, returned,
                 lastXk, firstBelow, first, failed>>
  /\ UNCHANGED <<hci_pt, handed, scratchVars>>

\* one iteration of the loop up to the objective call inside
\* optQN.next_step: the driver moves to a new potential x and calls
\* self.objfunc(x)
NextStepCall(x) ==
  /\ pc = "loop"
  /\ optQN.built
  /\ x \in NextPotentials(optQN)
  /\ optQN' = [optQN EXCEPT !.xnew = x]
  /\ arg' = x
  /\ nsCalls' = nsCalls + 1
  /\ pc' = "step_call"
  /\ UNCHANGED <<pot, iter, err, Ebe, max_space, nproc, table, pool, be_iter,
                 steps, banner, exit_status, run, iter0, evals, returned,
                 lastXk, firstBelow, first, failed>>
  /\ UNCHANGED <<hci_pt, handed, scratchVars>>

\* optQN.next_step returns: self.iter += 1, print the error, test it, and
\* either break, go round the loop again or fall out of it
StepReturn ==
  /\ pc = "step_ret"
  /\ iter' = IterAfterStep(iter)
  /\ steps' = steps + 1
  /\ returned' = returned + 1
  /\ IF ConvergedAfterStep(err, conv_tol)
     THEN /\ banner' = Append(banner, "CONVERGED")
          /\ pc' = "done"
     ELSE /\ banner' = banner
          /\ pc' = IF LoopContinues(steps + 1, max_space) THEN "loop" ELSE "done"
  /\ UNCHANGED <<pot, err, Ebe, max_space, nproc, table, pool, be_iter, arg,
                 optQN, exit_status, run, iter0, evals, nsCalls, lastXk,
                 firstBelow, first, failed>>
  /\ UNCHANGED <<hci_pt, handed, scratchVars>>

Next ==
  \/ \E m \in Methods : Optimize(m)
  \/ ObjfuncSerial
  \/ ObjfuncSerialRaise
  \/ ObjfuncParallelDispatch
  \/ \E f \in Frags : WorkerStart(f)
  \/ \E f \in Frags : WorkerFinish(f)
  \/ \E f \in Frags : WorkerFail(f)
  \/ ObjfuncParallelReturn
  \/ ObjfuncParallelRaise
  \/ InitialCheck
  \/ \E x \in Pots : NextStepCall(x)
  \/ StepReturn

Spec == Init /\ [][Next]_vars

\* every step of a call of optimize that is under way; when optimize is
\* called is up to the caller
Progress ==
  \/ ObjfuncSerial
  \/ ObjfuncSerialRaise
  \/ ObjfuncParallelDispatch
  \/ \E f \in Frags : WorkerStart(f)
  \/ \E f \in Frags : WorkerFinish(f)
  \/ \E f \in Frags : WorkerFail(f)
  \/ ObjfuncParallelReturn
  \/ ObjfuncParallelRaise
  \/ InitialCheck
  \/ \E x \in Pots : NextStepCall(x)
  \/ StepReturn

\* Which steps are taken depends on the errors the routine returns, which
\* stay free for every potential; the energies play no part in it, so the
\* energy flag and the initial potential are fixed.
LiveInit ==
  /\ Init
  /\ hci_pt = FALSE
  /\ pot = 0

\* the interpreter goes on with the next statement, and every call of the
\* evaluation routine and of the workers comes back (or raises)
LiveSpec == LiveInit /\ [][Next]_vars /\ WF_vars(Progress)


\* ------------------------------------------- operations on scratch space

\* the constructor takes any directory, holding files or not
WorkDirNew_NoEmptyCheck(h, l) ==
  /\ Fresh(h)
  /\ wd' = [wd EXCEPT ![h] = [st |-> "live", path |-> l, pid |-> 0]]
  /\ fs' = [fs EXCEPT ![l] = IF fs[l] = "absent" THEN "empty" ELSE fs[l]]
  /\ lastOp' = Op("new", h, l, fs[l], "")
  /\ UNCHANGED beoptVars

\* WorkDir(l): the directory is created unless it exists; one that holds
\* files is refused with ValueError, no object comes into being and the
\* directory is left as it is
WorkDirNew(h, l) ==
  /\ Fresh(h)
  /\ IF fs[l] = "nonempty"
     THEN /\ wd' = wd
          /\ fs' = fs
          /\ lastOp' = Op("new", h, l, fs[l], "ValueError")
     ELSE /\ wd' = [wd EXCEPT ![h] = [st |-> "live", path |-> l, pid |-> 0]]
          /\ fs' = [fs EXCEPT ![l] = "empty"]
          /\ lastOp' = Op("new", h, l, fs[l], "")
  /\ UNCHANGED beoptVars

\* WorkDir.from_environment(user_defined_root=root) in the process pid: the
\* search for a name starts at QuEmb_<pid>
FromEnvironment(h, pid) ==
  /\ Fresh(h)
  /\ wd' = [wd EXCEPT ![h] = [st |-> "probing", path |-> pid, pid |-> pid]]
  /\ lastOp' = Op("from_environment", h, pid, fs[pid], "")
  /\ UNCHANGED <<fs, beoptVars>>

\* the name is taken: on to the next number
ProbeTaken(h) ==
  /\ wd[h].st = "probing"
  /\ fs[wd[h].path] # "absent"
  /\ wd[h].path < MaxLoc
  /\ wd' = [wd EXCEPT ![h].path = wd[h].path + 1]
  /\ lastOp' = Op("probe", h, wd[h].path, fs[wd[h].path], "")
  /\ UNCHANGED <<fs, beoptVars>>

\* the name is taken for free without looking, whoever holds it
ProbeCreate_Unchecked(h) ==
  /\ wd[h].st = "probing"
  /\ wd' = [wd EXCEPT ![h].st = "live"]
  /\ fs' = [fs EXCEPT ![wd[h].path] = "empty"]
  /\ lastOp' = Op("acquire", h, wd[h].path, fs[wd[h].path], "")
  /\ UNCHANGED beoptVars

\* the name is free: the directory is created and is this object's
ProbeCreate(h) ==
  /\ wd[h].st = "probing"
  /\ fs[wd[h].path] = "absent"
  /\ wd' = [wd EXCEPT ![h].st = "live"]
  /\ fs' = [fs EXCEPT ![wd[h].path] = "empty"]
  /\ lastOp' = Op("acquire", h, wd[h].path, fs[wd[h].path], "")
  /\ UNCHANGED beoptVars

\* a file is written into the directory by its holder
WriteFile(h) ==
  /\ wd[h].st = "live"
  /\ fs[wd[h].path] # "absent"
  /\ fs' = [fs EXCEPT ![wd[h].path] = "nonempty"]
  /\ lastOp' = Op("write", h, wd[h].path, fs[wd[h].path], "")
  /\ UNCHANGED <<wd, beoptVars>>

\* removal that ignores a missing directory
Remove_IgnoreErrors(o, h) ==
  /\ fs' = [fs EXCEPT ![wd[h].path] = "absent"]
  /\ wd' = [wd EXCEPT ![h].st = "released"]
  /\ lastOp' = Op(o, h, wd[h].path, fs[wd[h].path], "")

\* the directory tree is removed; FileNotFoundError when there is none
Remove(o, h) ==
  /\ fs' = [fs EXCEPT ![wd[h].path] = "absent"]
  /\ wd' = [wd EXCEPT ![h].st = "released"]
  /\ lastOp' = Op(o, h, wd[h].path, fs[wd[h].path],
                  IF fs[wd[h].path] = "absent" THEN "FileNotFoundError" ELSE "")

\* WorkDir.cleanup() by the holder of the directory, or once more on an
\* object whose directory is gone
Cleanup(h) ==
  /\ \/ wd[h].st \in {"live", "kept"}
     \/ wd[h].st = "released" /\ fs[wd[h].path] = "absent"
  /\ Remove("cleanup", h)
  /\ UNCHANGED beoptVars

\* the with block ends without an exception: cleanup
ExitNormal(h) ==
  /\ wd[h].st = "live"
  /\ Remove("exit", h)
  /\ UNCHANGED beoptVars

\* the directory is removed although the block raised
ExitError_Removes(h) ==
  /\ wd[h].st = "live"
  /\ fs' = [fs EXCEPT ![wd[h].path] = "absent"]
  /\ wd' = [wd EXCEPT ![h].st = "kept"]
  /\ lastOp' = Op("exit_error", h, wd[h].path, fs[wd[h].path], "BodyError")
  /\ UNCHANGED beoptVars

\* the with block is left by an exception: nothing is removed and the
\* exception goes on to the caller
ExitError(h) ==
  /\ wd[h].st = "live"
  /\ wd' = [wd EXCEPT ![h].st = "kept"]
  /\ lastOp' = Op("exit_error", h, wd[h].path, fs[wd[h].path], "BodyError")
  /\ UNCHANGED <<fs, beoptVars>>

\* the directories found at the start: none, an empty one (mkdtemp()) or
\* one that holds a file (testfile.touch()); no BEOPT run is going on
ScratchInit ==
  /\ BeoptInit
  /\ pot = 0
  /\ max_space = 0
  /\ nproc = 1
  /\ hci_pt = FALSE
  /\ table = [p \in Pots |-> 0]
  /\ fs \in [Locs -> {"absent", "empty", "nonempty"}]
  /\ wd = NoWorkDirs
  /\ lastOp = NoOp

\* directories given by their path: WorkDir(path)
ScratchNext ==
  \/ \E h \in WorkDirs, l \in Locs : WorkDirNew(h, l)
  \/ \E h \in WorkDirs : WriteFile(h)
  \/ \E h \in WorkDirs : Cleanup(h)
  \/ \E h \in WorkDirs : ExitNormal(h)
  \/ \E h \in WorkDirs : ExitError(h)

ScratchSpec == ScratchInit /\ [][ScratchNext]_vars

\* directories named QuEmb_<number> under one shared root, every one of
\* them obtained through WorkDir.from_environment
EnvNext ==
  \/ \E h \in WorkDirs, pid \in Locs : FromEnvironment(h, pid)
  \/ \E h \in WorkDirs : ProbeTaken(h)
  \/ \E h \in WorkDirs : ProbeCreate(h)
  \/ \E h \in WorkDirs : WriteFile(h)
  \/ \E h \in WorkDirs : Cleanup(h)
  \/ \E h \in WorkDirs : ExitNormal(h)
  \/ \E h \in WorkDirs : ExitError(h)

EnvSpec == ScratchInit /\ [][EnvNext]_vars

\* ------------------------------------------------------------ properties

ConvergenceBanners == {"CONVERGED w/o Optimization Steps", "CONVERGED"}
Converged == pc = "done" /\ err < conv_tol
StepBudgetExhausted == pc = "done" /\ steps = max_space /\ ~(err < conv_tol)

\* C1: when the initial evaluation of a QN run returns an error below
\* conv_tol, next_step is never called, self.iter keeps the value it had
\* when optimize was called, exactly one evaluation is made, and the run
\* ends with the banner of immediate convergence.
C1_ImmediateConvergence ==
  firstBelow = 1 =>
    /\ pc \in {"init_ret", "done"}
    /\ nsCalls = 0
    /\ steps = 0
    /\ iter = iter0
    /\ evals = 1
    /\ pc = "done" => banner = <<"CONVERGED w/o Optimization Steps">>

C1_Witness ==
  /\ firstBelow = 1
  /\ pc = "done"
  /\ banner = <<"CONVERGED w/o Optimization Steps">>

\* C2: a QN run never calls next_step more than max_space times; a run in
\* which no evaluation returned an error below conv_tol ends normally, with
\* exactly max_space steps taken, the budget exhausted and nothing raised
\* (optimize raises only when the evaluation routine has raised).
C2_StepBudget ==
  /\ nsCalls <= max_space
  /\ steps <= nsCalls
  /\ pc = "raised" => failed
  /\ (pc = "done" /\ firstBelow = 0) =>
       /\ steps = max_space
       /\ nsCalls = max_space
       /\ StepBudgetExhausted
       /\ ~failed
  /\ (firstBelow = 0 /\ steps = max_space /\ ~failed)
       => pc \in {"idle", "init_call", "init_wait", "init_ret", "done", "exited"}

C2_Witness ==
  /\ pc = "done"
  /\ firstBelow = 0
  /\ max_space = MaxSpace
  /\ steps = MaxSpace

\* C3: self.iter equals the number of next_step calls that have returned
\* (over all calls of optimize on the object), and within a run it is the
\* value at the start of the run plus the steps completed in the run.
C3_IterCountsSteps ==
  /\ iter = returned
  /\ iter = iter0 + steps

C3_Witness ==
  /\ returned >= 2
  /\ pc = "loop"

\* C4: the error is tested after every step, the last permitted one included,
\* and the loop stops at the first step whose error is strictly below
\* conv_tol: a run whose initial error is not below conv_tol ends after
\* min(max_space, first k with post-step error < conv_tol) steps, with the
\* banner CONVERGED exactly when that last error is below conv_tol.
C4_StopsAtFirstConvergedStep ==
  /\ pc \in {"loop", "step_call", "step_wait"} => firstBelow = 0
  /\ (pc = "done" /\ firstBelow # 1) =>
       /\ steps = (IF firstBelow = 0 THEN max_space ELSE firstBelow - 1)
       /\ steps <= max_space
       /\ (firstBelow # 0) <=> (err < conv_tol)
       /\ (banner = <<"CONVERGED">>) <=> (err < conv_tol)
       /\ ~(err < conv_tol) => StepBudgetExhausted

\* maxSteps = 1: one step, converged by it
C4_Witness ==
  /\ pc = "done"
  /\ max_space = 1
  /\ steps = 1
  /\ firstBelow = 2
  /\ banner = <<"CONVERGED">>

\* C5: an unsupported method ends the process with a non-zero exit status.
C5_NonZeroExit ==
  pc = "exited" => (exit_status # <<>> /\ exit_status[1] # 0)

\* C6 as claimed: after an evaluation, err and Ebe are the values of the
\* external routine at the potential stored in self.pot.
C6_ReflectsStoredPot ==
  first.set => (err = table[pot] /\ Ebe = SumFragE(Frags, pot, handed.hci_pt))

\* C6 amended: objfunc stores err and Ebe together and leaves self.pot alone
\* (it keeps the potential given at construction); after an evaluation, err
\* and Ebe are the values of the external routine at the argument xk of the
\* latest objfunc call that returned.
C6_ReflectsLatestArgument ==
  first.set =>
    /\ err = table[lastXk]
    /\ Ebe = SumFragE(Frags, lastXk, handed.hci_pt)
    /\ pot = first.xk
    /\ pc \in {"init_ret", "step_ret"} => lastXk = arg

C6_Witness ==
  /\ pc = "step_ret"
  /\ lastXk # pot
  /\ table[lastXk] # table[pot]

C8_FailurePropagates ==
  /\ evals <= nsCalls + 1
  /\ failed =>
       /\ pc = "raised"
       /\ banner = <<>>
       /\ evals = nsCalls + 1
       /\ steps = (IF nsCalls = 0 THEN 0 ELSE nsCalls - 1)
       /\ iter = iter0 + steps
       /\ iter = returned
       /\ ~PoolActive

\* a failure during the second step
C8_Witness ==
  /\ failed
  /\ pc = "raised"
  /\ nsCalls = 2
  /\ steps = 1

\* C9: in parallel mode the loop waits while fragments of an evaluation are
\* queued or running: no step, and no further evaluation, starts before all
\* of them have delivered, at most nproc fragments run at once, and the
\* potential under evaluation is the one the driver holds.
C9_StepsSequential ==
  /\ PoolActive => (Waiting /\ ~UsesSerial(nproc))
  /\ PoolActive => (pool.xk = arg /\ optQN.xnew = arg)
  /\ Waiting => (PoolActive /\ evals = nsCalls + 1 /\ steps <= nsCalls)
  /\ Cardinality(Running) <= nproc

\* the evaluation of the second step in flight, two workers busy
C9_Witness ==
  /\ pc = "step_wait"
  /\ steps = 1
  /\ Cardinality(Running) = 2

C11_SameResultBothModes ==
  /\ handed.routine # "none" => handed.hci_pt = hci_pt
  /\ first.set =>
       /\ err = be_func(lastXk, hci_pt, be_iter).err
       /\ Ebe = be_func(lastXk, hci_pt, be_iter).ebe

\* C12: a release (WorkDir.cleanup, or the normal end of a with block)
\* leaves the location non-existent and the object released; a release of a
\* location that is already gone raises FileNotFoundError, and one that
\* removed a directory raises nothing.
C12_ReleaseRemoves ==
  lastOp.op \in {"cleanup", "exit"} =>
    /\ fs[lastOp.loc] = "absent"
    /\ wd[lastOp.h].st = "released"
    /\ lastOp.before = "absent" => lastOp.err = "FileNotFoundError"
    /\ lastOp.before # "absent" => lastOp.err = ""

\* a second cleanup of the same object has just raised
C12_Witness ==
  /\ lastOp.op = "cleanup"
  /\ lastOp.before = "absent"
  /\ lastOp.err = "FileNotFoundError"
  /\ wd[lastOp.h].st = "released"

\* the location was left behind by a with block that raised
Preserved(l) == \E g \in WorkDirs : wd[g].st = "kept" /\ wd[g].path = l

WithBlockOutcome ==
  /\ lastOp.op = "exit" => fs[lastOp.loc] = "absent"
  /\ lastOp.op = "exit_error" =>
       /\ fs[lastOp.loc] = lastOp.before
       /\ lastOp.err = "BodyError"
       /\ wd[lastOp.h].st = "kept"

\* C13 as stated: the location is removed when the with block completes
\* normally, kept as it is when the block raises (the exception goes on to
\* the caller), and every preserved location can be acquired again.
C13_PreservedReacquirable ==
  /\ WithBlockOutcome
  /\ (lastOp.op = "new" /\ lastOp.before # "absent" /\ Preserved(lastOp.loc))
       => (lastOp.err = "" /\ wd[lastOp.h].st = "live")

\* C13 amended: as above, but it is a preserved location that is still
\* empty that can be acquired again; one that holds files is refused.
C13_EmptyPreservedReacquirable ==
  /\ WithBlockOutcome
  /\ (lastOp.op = "new" /\ lastOp.before = "empty" /\ Preserved(lastOp.loc))
       => (lastOp.err = "" /\ wd[lastOp.h].st = "live")
  /\ (lastOp.op = "new" /\ lastOp.before = "nonempty" /\ Preserved(lastOp.loc))
       => (lastOp.err = "ValueError" /\ wd[lastOp.h].st = "none")

\* a location kept by one with block was acquired again and has just been
\* removed at the normal end of the second block
C13_Witness ==
  /\ lastOp.op = "exit"
  /\ lastOp.err = ""
  /\ fs[lastOp.loc] = "absent"
  /\ \E g \in WorkDirs :
       g # lastOp.h /\ wd[g].st = "kept" /\ wd[g].path = lastOp.loc

\* C14: WorkDir on a directory that holds files raises ValueError; no
\* object comes into being, and the directory and its contents stay.
C14_NonEmptyRefused ==
  (lastOp.op = "new" /\ lastOp.before = "nonempty") =>
    /\ lastOp.err = "ValueError"
    /\ fs[lastOp.loc] = "nonempty"
    /\ wd[lastOp.h].st = "none"
    /\ \A g \in WorkDirs : wd[g].st = "live" => g # lastOp.h

C14_Witness ==
  /\ lastOp.op = "new"
  /\ lastOp.before = "nonempty"
  /\ lastOp.err = "ValueError"
  /\ fs[lastOp.loc] = "nonempty"

InRun == pc \in {"init_call", "init_wait", "init_ret", "loop", "step_call",
                 "step_wait", "step_ret"}

\* C16: a call of optimize(method="QN") that is under way comes to an end,
\* returned or left by a raised failure; when it has returned, the object is
\* in exactly one of Converged and StepBudgetExhausted.
C16_TerminatesInOneOfTwo ==
  /\ [](pc = "done" => (Converged \/ StepBudgetExhausted))
  /\ [](~(Converged /\ StepBudgetExhausted))
  /\ [](pc = "raised" => failed)
  /\ (InRun ~> pc \in {"done", "raised"})

\* a call returned without convergence after its whole budget of steps,
\* every evaluation having returned
C16_Witness ==
  /\ StepBudgetExhausted
  /\ ~failed
  /\ max_space > 0
  /\ evals = max_space + 1

\* C17: objfunc has handed its potential to the evaluation routine exactly
\* once per call: while the call is about to reach the routine the number
\* of routine calls of this call of optimize equals the number of objfunc
\* calls before it, afterwards it is one more, whatever the potentials; the
\* routine is be_func when nproc == 1 and be_func_parallel otherwise.
C17_OneRoutineCallPerObjfunc ==
  /\ Calling => evals = nsCalls
  /\ pc \in {"init_wait", "init_ret", "loop", "step_wait", "step_ret", "done"}
       => evals = nsCalls + 1
  /\ handed.routine # "none" =>
       handed.routine = IF nproc = 1 THEN "be_func" ELSE "be_func_parallel"
  /\ (handed.routine = "none") = ~(first.set \/ failed \/ Waiting)

\* the second call of optimize has evaluated the potential that the first
\* call evaluated first
C17_Witness ==
  /\ run = 2
  /\ pc = "init_ret"
  /\ evals = 1
  /\ first.set
  /\ lastXk = first.xk

Evaluating == pc \in {"init_wait", "init_ret", "step_wait", "step_ret"}

\* C18: the be_iter handed to the evaluation routine is the number of
\* next_step calls that had returned when the evaluation started; in the
\* first call of optimize the initial evaluation and the one inside the
\* first step both get 0.
C18_BeIterIsStepsCompleted ==
  /\ Evaluating => be_iter = returned
  /\ (Evaluating /\ run = 1 /\ evals \in {1, 2}) => be_iter = 0

\* the evaluation inside the first step got the index 0 of the initial one
C18_Witness ==
  /\ pc = "step_ret"
  /\ run = 1
  /\ evals = 2
  /\ nsCalls = 1
  /\ be_iter = 0

\* C19: the step that ends optimize on the unsupported-method path makes no
\* evaluation, builds no driver and leaves pot, iter, err and Ebe (and what
\* was last handed to the routine) as they were.
C19_UnsupportedChangesNothing ==
  [][pc' = "exited" =>
       /\ evals' = 0
       /\ ~optQN'.built
       /\ pot' = pot
       /\ iter' = iter
       /\ err' = err
       /\ Ebe' = Ebe
       /\ be_iter' = be_iter
       /\ handed' = handed
       /\ lastXk' = lastXk]_vars

\* optimize with an unsupported method after a QN call that made a step
C19_Witness ==
  /\ pc = "exited"
  /\ run = 2
  /\ first.set
  /\ iter > 0

\* C20: pot is the potential given at construction and iter the number of
\* next_step calls that returned over all calls of optimize; every call of
\* optimize starts by evaluating pot with the counter as the last call left
\* it and makes at most max_space steps.
C20_NeverReset ==
  /\ iter = returned
  /\ first.set => pot = first.xk
  /\ iter = iter0 + steps
  /\ steps <= max_space
  /\ pc \in {"init_call", "init_wait", "init_ret"} =>
       (arg = pot /\ steps = 0 /\ iter = returned)
  /\ iter <= run * max_space

\* after the second call of optimize the counter exceeds max_space
C20_Witness ==
  /\ run = 2
  /\ pc = "done"
  /\ max_space > 0
  /\ iter > max_space
  /\ steps = max_space

====
